---------------------------- MODULE Spec2Model ----------------------------
(***************************************************************************)
(* A model of media_organizer.py: the filename parser, the name sanitizer, *)
(* the three TMDb calls, process_file, the watchdog event handler and      *)
(* start_monitoring.                                                       *)
(*                                                                         *)
(* Python strings are modelled as sequences of one-character strings, so   *)
(* that lower(), replace(), strip(), slicing and the regular expressions   *)
(* are computed character by character, as the interpreter computes them.  *)
(***************************************************************************)
EXTENDS Integers, Sequences, FiniteSets, TLC

VARIABLES
    config,     \* the module-level API_KEY, SOURCE_DIR, MOVIE_DIR, TV_SHOW_DIR
    phase,      \* where start_monitoring is: "init", "exited", "monitoring", "stopped"
    observer,   \* the watchdog observer thread: "none", "running", "dead", "stopped"
    nEvents,    \* number of creation events delivered so far
    last,       \* the last event handled by on_created and what process_file did
    dirs,       \* directories created by os.makedirs
    moved,      \* <<source, destination>> of every file shutil.move relocated
    stem,       \* parser check: the stem handed to parse_filename
    parsed      \* parser check: what parse_filename returned for it

vars == <<config, phase, observer, nEvents, last, dirs, moved, stem, parsed>>

(***************************************************************************)
(* Bounds of the model.                                                    *)
(***************************************************************************)
MaxEvents == 2
MaxPieces == 4

(***************************************************************************)
(* Characters and strings.                                                 *)
(***************************************************************************)
\* the empty Python string
Empty == <<>>

IsDigit(c) == c \in {"0", "1", "2", "3", "4", "5", "6", "7", "8", "9"}

\* value of a decimal digit character
DigitVal(c) ==
    CASE c = "0" -> 0 [] c = "1" -> 1 [] c = "2" -> 2 [] c = "3" -> 3 [] c = "4" -> 4
      [] c = "5" -> 5 [] c = "6" -> 6 [] c = "7" -> 7 [] c = "8" -> 8 [] c = "9" -> 9

\* the character of a decimal digit
DigitChar(d) ==
    CASE d = 0 -> "0" [] d = 1 -> "1" [] d = 2 -> "2" [] d = 3 -> "3" [] d = 4 -> "4"
      [] d = 5 -> "5" [] d = 6 -> "6" [] d = 7 -> "7" [] d = 8 -> "8" [] d = 9 -> "9"

\* str.lower() on one character
LowerChar(c) ==
    CASE c = "A" -> "a" [] c = "B" -> "b" [] c = "C" -> "c" [] c = "D" -> "d"
      [] c = "E" -> "e" [] c = "F" -> "f" [] c = "G" -> "g" [] c = "H" -> "h"
      [] c = "I" -> "i" [] c = "J" -> "j" [] c = "K" -> "k" [] c = "L" -> "l"
      [] c = "M" -> "m" [] c = "N" -> "n" [] c = "O" -> "o" [] c = "P" -> "p"
      [] c = "Q" -> "q" [] c = "R" -> "r" [] c = "S" -> "s" [] c = "T" -> "t"
      [] c = "U" -> "u" [] c = "V" -> "v" [] c = "W" -> "w" [] c = "X" -> "x"
      [] c = "Y" -> "y" [] c = "Z" -> "z" [] OTHER -> c

\* str.lower()
Lower(s) == [i \in 1..Len(s) |-> LowerChar(s[i])]

\* str.replace(old, new) for one-character old and new
Replace(s, old, new) == [i \in 1..Len(s) |-> IF s[i] = old THEN new ELSE s[i]]

IsSpace(c) == c \in {" ", "\t", "\n"}

\* str.lstrip(): leading whitespace removed
RECURSIVE LStrip(_)
LStrip(s) == IF Len(s) > 0 /\ IsSpace(s[1]) THEN LStrip(Tail(s)) ELSE s

\* str.rstrip(): trailing whitespace removed
RECURSIVE RStrip(_)
RStrip(s) == IF Len(s) > 0 /\ IsSpace(s[Len(s)]) THEN RStrip(SubSeq(s, 1, Len(s) - 1)) ELSE s

\* str.strip(): leading and trailing whitespace removed
Strip(s) == RStrip(LStrip(s))

\* s[:n]
Prefix(s, n) == SubSeq(s, 1, IF Len(s) < n THEN Len(s) ELSE n)

\* int() of a string of decimal digits
RECURSIVE ToInt(_)
ToInt(s) ==
    IF Len(s) = 0 THEN 0
    ELSE 10 * ToInt(SubSeq(s, 1, Len(s) - 1)) + DigitVal(s[Len(s)])

\* str() of a natural number
RECURSIVE ToStr(_)
ToStr(n) ==
    IF n < 10 THEN <<DigitChar(n)>>
    ELSE ToStr(n \div 10) \o <<DigitChar(n % 10)>>

\* str.zfill(width): zeros on the left up to width, never a truncation
RECURSIVE Zfill(_, _)
Zfill(s, width) == IF Len(s) >= width THEN s ELSE Zfill(<<"0">> \o s, width)

\* concatenation of a sequence of strings
RECURSIVE Flatten(_)
Flatten(ss) == IF Len(ss) = 0 THEN Empty ELSE Head(ss) \o Flatten(Tail(ss))

(***************************************************************************)
(* Regular expressions of parse_filename.                                  *)
(***************************************************************************)
DigitAt(s, i) == i >= 1 /\ i <= Len(s) /\ IsDigit(s[i])
CharAt(s, i, cs) == i >= 1 /\ i <= Len(s) /\ s[i] \in cs

\* number of digits (1 or 2) that the first group of
\* [sS](\d{1,2})[eE](\d{1,2}) takes in a match starting at i; 0 if no match.
\* \d{1,2} is greedy: two digits are tried first, then one.
SeasonEpisodeAt(s, i) ==
    IF ~CharAt(s, i, {"s", "S"}) THEN 0
    ELSE IF DigitAt(s, i+1) /\ DigitAt(s, i+2) /\ CharAt(s, i+3, {"e", "E"}) /\ DigitAt(s, i+4)
         THEN 2
    ELSE IF DigitAt(s, i+1) /\ CharAt(s, i+2, {"e", "E"}) /\ DigitAt(s, i+3)
         THEN 1
    ELSE 0

\* re.search(r'[sS](\d{1,2})[eE](\d{1,2})', s): the leftmost match, as
\* [found, start, group1, group2]
SearchSeasonEpisode(s) ==
    LET at == {i \in 1..Len(s) : SeasonEpisodeAt(s, i) > 0}
    IN  IF at = {} THEN [found |-> FALSE, start |-> 0, group1 |-> Empty, group2 |-> Empty]
        ELSE LET i  == CHOOSE k \in at : \A j \in at : k <= j
                 n1 == SeasonEpisodeAt(s, i)
                 e0 == i + n1 + 2      \* first digit of the second group
                 n2 == IF DigitAt(s, e0 + 1) THEN 2 ELSE 1
             IN  [found |-> TRUE, start |-> i,
                  group1 |-> SubSeq(s, i + 1, i + n1),
                  group2 |-> SubSeq(s, e0, e0 + n2 - 1)]

\* whether \(?(\d{4})\)? matches starting at i, and where its digits start
YearAt(s, i) ==
    IF CharAt(s, i, {"("}) /\ DigitAt(s, i+1) /\ DigitAt(s, i+2) /\ DigitAt(s, i+3) /\ DigitAt(s, i+4)
    THEN i + 1
    ELSE IF DigitAt(s, i) /\ DigitAt(s, i+1) /\ DigitAt(s, i+2) /\ DigitAt(s, i+3)
    THEN i
    ELSE 0

\* re.search(r'\(?(\d{4})\)?', s): the leftmost match, as [found, start, group1]
SearchYear(s) ==
    LET at == {i \in 1..Len(s) : YearAt(s, i) > 0}
    IN  IF at = {} THEN [found |-> FALSE, start |-> 0, group1 |-> Empty]
        ELSE LET i == CHOOSE k \in at : \A j \in at : k <= j
                 d == YearAt(s, i)
             IN  [found |-> TRUE, start |-> i, group1 |-> SubSeq(s, d, d + 3)]

\* re.split(pattern, s)[0]: the text before the leftmost match
SplitFirst(s, start) == SubSeq(s, 1, start - 1)

(***************************************************************************)
(* parse_filename.  The returned dict is a record with the set of its keys *)
(* ("keys"); a field whose key is absent holds a filler value.             *)
(***************************************************************************)
\* a variant of line 70 without the strip()
EpisodeTitleUnstripped(filename, start) == Replace(SplitFirst(filename, start), ".", " ")

\* line 70: title of an episode guess: the text before the marker, '.' to ' ', stripped
EpisodeTitle(filename, start) == Strip(Replace(SplitFirst(filename, start), ".", " "))

parse_filename(fname) ==
    LET filename       == Lower(fname)
        season_episode == SearchSeasonEpisode(filename)
        year           == SearchYear(filename)
    IN  IF season_episode.found
        THEN [keys    |-> {"title", "season", "episode"},
              title   |-> EpisodeTitle(filename, season_episode.start),
              season  |-> ToInt(season_episode.group1),
              episode |-> ToInt(season_episode.group2),
              year    |-> Empty]
        ELSE IF year.found
        THEN [keys    |-> {"title", "year"},
              title   |-> Strip(Replace(SplitFirst(filename, year.start), ".", " ")),
              season  |-> 0,
              episode |-> 0,
              year    |-> year.group1]
        ELSE [keys    |-> {"title"},
              title   |-> Strip(Replace(filename, ".", " ")),
              season  |-> 0,
              episode |-> 0,
              year    |-> Empty]

(***************************************************************************)
(* clean_name: re.sub(r'[<>:"/\\|?*]', '', name)                           *)
(***************************************************************************)
IllegalChars == {"<", ">", ":", "\"", "/", "\\", "|", "?", "*"}

clean_name(name) == SelectSeq(name, LAMBDA c : c \notin IllegalChars)

(***************************************************************************)
(* os.path helpers.                                                        *)
(***************************************************************************)
\* index of the last occurrence of c in s, 0 if there is none
LastIndexOf(s, c) ==
    LET at == {i \in 1..Len(s) : s[i] = c}
    IN  IF at = {} THEN 0 ELSE CHOOSE i \in at : \A j \in at : j <= i

\* os.path.basename
Basename(path) == SubSeq(path, LastIndexOf(path, "/") + 1, Len(path))

\* os.path.splitext of a name without separators, as <<root, ext>>: the
\* extension starts at the last dot, unless only dots precede that dot
SplitExt(name) ==
    LET dot == LastIndexOf(name, ".")
    IN  IF dot > 0 /\ \E i \in 1..(dot - 1) : name[i] # "."
        THEN <<SubSeq(name, 1, dot - 1), SubSeq(name, dot, Len(name))>>
        ELSE <<name, Empty>>

\* os.path.join(a, b)
PathJoin(a, b) ==
    IF Len(b) > 0 /\ b[1] = "/" THEN b
    ELSE IF Len(a) = 0 \/ a[Len(a)] = "/" THEN a \o b
    ELSE a \o <<"/">> \o b

(***************************************************************************)
(* Configuration (module level, read once at import).                      *)
(***************************************************************************)
\* os.getenv of an unset variable
NoneKey == "<None>"
\* the placeholder value search_media compares with
PlaceholderKey == "your_api_key_here"
\* a directory variable that is unset
NoneDir == <<"None">>

VIDEO_EXTENSIONS == { <<".","m","k","v">>, <<".","m","p","4">>,
                      <<".","a","v","i">>, <<".","m","o","v">> }

\* Python truthiness of an environment value
TruthyKey(k) == k # NoneKey /\ k # ""
TruthyDir(d) == d # NoneDir /\ d # Empty

(***************************************************************************)
(* Log records and the trace of calls to the collaborators.                *)
(***************************************************************************)
LogRec(level, msg) == [level |-> level, msg |-> msg]
CallRec(op, arg, dst, nums) == [op |-> op, arg |-> arg, dst |-> dst, nums |-> nums]

\* a value returned by a TMDb function, or the exception it let through
Returned(value, log, calls) == [raised |-> "", value |-> value, log |-> log, calls |-> calls]
Raised(exc, log, calls) == [raised |-> exc, value |-> [none |-> TRUE], log |-> log, calls |-> calls]

\* Python's None as a return value
NoneValue == [none |-> TRUE]

(***************************************************************************)
(* TMDb API functions.  env holds what the provider and the filesystem     *)
(* answer during one call of process_file:                                 *)
(*   env.search   "ok" / "fail": requests.get of the search URL returns a  *)
(*                response / raises a RequestException                     *)
(*   env.hits     the 'results' list of the search response                *)
(*   env.movie    the movie detail, or NoneValue when the fetch fails      *)
(*   env.episode  the episode detail, or NoneValue when the fetch fails    *)
(*   env.makedirs, env.move   "ok" / "fail" (OSError)                      *)
(***************************************************************************)
search_media(API_KEY, title, env) ==
    IF ~TruthyKey(API_KEY) \/ API_KEY = PlaceholderKey
    THEN Returned(NoneValue,
                  <<LogRec("ERROR", "TMDb API key is not configured")>>, <<>>)
    ELSE LET get == <<CallRec("GET search/multi", title, Empty, <<>>)>>
         IN  IF env.search = "fail"
             THEN \* requests.get raises RequestException: caught
                  Returned(NoneValue, <<LogRec("ERROR", "Error searching TMDb")>>, get)
             ELSE \* response.raise_for_for_status(): requests.Response has no
                  \* such attribute; AttributeError is no RequestException and
                  \* leaves search_media before the return of line 32
                  Raised("AttributeError", <<>>, get)

get_movie_details(movie_id, env) ==
    LET get == <<CallRec("GET movie", Empty, Empty, <<movie_id>>)>>
    IN  IF env.movie.none
        THEN Returned(NoneValue, <<LogRec("ERROR", "Error getting movie details")>>, get)
        ELSE Returned(env.movie, <<>>, get)

get_tv_show_details(tv_id, season, episode, env) ==
    LET get == <<CallRec("GET tv episode", Empty, Empty, <<tv_id, season, episode>>)>>
    IN  IF env.episode.none
        THEN Returned(NoneValue,
                      <<LogRec("WARNING", "Could not get TV show details")>>, get)
        ELSE Returned(env.episode, <<>>, get)

(***************************************************************************)
(* process_file.  Its result is [raised, log, calls]: the exception that   *)
(* left it ("" when it returned), the log lines written, and the calls     *)
(* made to the parser, the provider and the filesystem, in order.          *)
(***************************************************************************)
Done(log, calls) == [raised |-> "", log |-> log, calls |-> calls]
Failed(exc, log, calls) == [raised |-> exc, log |-> log, calls |-> calls]

\* a variant of line 96 that lowercases the extension before the test
IsVideoAnyCase(file_ext) == Lower(file_ext) \in VIDEO_EXTENSIONS

\* line 96: the extension allow-list (case-sensitive list membership)
IsVideo(file_ext) == file_ext \in VIDEO_EXTENSIONS

\* a variant of lines 108-110 that files the unidentified video under the
\* movie root instead of returning
NoSearchResultsMoved(file_path, MOVIE_DIR, log, calls) ==
    Done(log \o <<LogRec("WARNING", "No search results")>>,
         calls \o <<CallRec("move", file_path,
                            PathJoin(MOVIE_DIR, Basename(file_path)), <<>>)>>)

\* lines 108-110: nothing found, the file is left where it is
NoSearchResults(file_path, MOVIE_DIR, log, calls) ==
    Done(log \o <<LogRec("WARNING", "No search results")>>, calls)

\* lines 119-122: the movie's destination path
MoviePath(MOVIE_DIR, movie_details, file_ext) ==
    LET title        == clean_name(movie_details.title)
        year         == Prefix(movie_details.release_date, 4)
        new_filename == title \o <<"-">> \o year \o file_ext
    IN  PathJoin(MOVIE_DIR, new_filename)

\* lines 131-138: the season folder of an episode
SeasonFolder(TV_SHOW_DIR, media, show_details) ==
    LET show_name  == clean_name(media.name)
        season_num == Zfill(ToStr(show_details.season_number), 2)
    IN  PathJoin(PathJoin(TV_SHOW_DIR, show_name),
                 <<"S","e","a","s","o","n"," ">> \o season_num)

\* lines 131-136: the new file name of an episode
EpisodeFilename(media, show_details, file_ext) ==
    LET show_name   == clean_name(media.name)
        season_num  == Zfill(ToStr(show_details.season_number), 2)
        episode_num == Zfill(ToStr(show_details.episode_number), 2)
        year        == Prefix(show_details.air_date, 4)
    IN  show_name \o <<".", "s">> \o season_num \o <<"e">> \o episode_num
                  \o <<"-">> \o year \o file_ext

\* lines 116-125: the first hit is a movie
ProcessMovie(file_path, file_ext, media, cfg, env, log, calls) ==
    LET md     == get_movie_details(media.id, env)
        log1   == log \o md.log
        calls1 == calls \o md.calls
    IN  IF md.value.none THEN Done(log1, calls1)
        ELSE LET dest_path == MoviePath(cfg.MOVIE_DIR, md.value, file_ext)
                 log2      == log1 \o <<LogRec("INFO", "Renaming and moving movie")>>
                 calls2    == calls1 \o <<CallRec("move", file_path, dest_path, <<>>)>>
             IN  IF env.move = "fail" THEN Failed("OSError", log2, calls2)
                 ELSE Done(log2, calls2)

\* lines 127-145: the first hit is a TV show
ProcessTv(file_path, file_ext, media, parsed_info, cfg, env, log, calls) ==
    IF {"season", "episode"} \subseteq parsed_info.keys
    THEN LET sd     == get_tv_show_details(media.id, parsed_info.season,
                                           parsed_info.episode, env)
             log1   == log \o sd.log
             calls1 == calls \o sd.calls
         IN  IF sd.value.none THEN Done(log1, calls1)
             ELSE LET season_folder == SeasonFolder(cfg.TV_SHOW_DIR, media, sd.value)
                      dest_path == PathJoin(season_folder,
                                            EpisodeFilename(media, sd.value, file_ext))
                      calls2 == calls1 \o <<CallRec("makedirs", season_folder, Empty, <<>>)>>
                      log2   == log1 \o <<LogRec("INFO", "Renaming and moving TV show")>>
                      calls3 == calls2 \o <<CallRec("move", file_path, dest_path, <<>>)>>
                  IN  IF env.makedirs = "fail" THEN Failed("OSError", log1, calls2)
                      ELSE IF env.move = "fail" THEN Failed("OSError", log2, calls3)
                      ELSE Done(log2, calls3)
    ELSE Done(log \o <<LogRec("WARNING", "Could not determine season/episode")>>, calls)

\* lines 112-145: what follows a non-empty search result
ProcessHit(file_path, file_ext, search_results, parsed_info, cfg, env, log, calls) ==
    LET media      == search_results[1]
        media_type == media.media_type
    IN  IF media_type = "movie"
        THEN ProcessMovie(file_path, file_ext, media, cfg, env, log, calls)
        ELSE IF media_type = "tv"
        THEN ProcessTv(file_path, file_ext, media, parsed_info, cfg, env, log, calls)
        ELSE Done(log, calls)

\* lines 89-145
process_file(file_path, cfg, env) ==
    LET filename == Basename(file_path)
        file_ext == SplitExt(filename)[2]
    IN  IF ~IsVideo(file_ext)
        THEN Done(<<LogRec("INFO", "Skipping non-video file")>>, <<>>)
        ELSE
        LET log1        == <<LogRec("INFO", "Processing video file")>>
            root        == SplitExt(filename)[1]
            parsed_info == parse_filename(root)
            calls1      == <<CallRec("parse_filename", root, Empty, <<>>)>>
        IN  IF parsed_info.title = Empty
            THEN Done(log1 \o <<LogRec("WARNING", "Could not parse title")>>, calls1)
            ELSE
            LET sr     == search_media(cfg.API_KEY, parsed_info.title, env)
                log2   == log1 \o sr.log
                calls2 == calls1 \o sr.calls
            IN  IF sr.raised # "" THEN Failed(sr.raised, log2, calls2)
                ELSE IF sr.value.none \/ sr.value.list = <<>>
                THEN NoSearchResults(file_path, cfg.MOVIE_DIR, log2, calls2)
                ELSE ProcessHit(file_path, file_ext, sr.value.list, parsed_info,
                                cfg, env, log2, calls2)

(***************************************************************************)
(* Inputs: configurations, file names, and answers of the collaborators.   *)
(***************************************************************************)
SourceDir == <<"i","n">>
MovieDir  == <<"m","v">>
TvDir     == <<"t","v">>

Configs ==
    [API_KEY     : {NoneKey, "", PlaceholderKey, "k3y"},
     SOURCE_DIR  : {NoneDir, SourceDir},
     MOVIE_DIR   : {NoneDir, MovieDir},
     TV_SHOW_DIR : {Empty, TvDir}]

FileNames ==
    { <<"i","n","c","e","p","t","i","o","n",".","2","0","1","0",".","m","k","v">>,
      <<"b","r",".","b","a",".","S","0","1","E","0","1",".","m","k","v">>,
      <<"a","_","b",".","s","3","e","7",".","a","v","i">>,
      <<"h","o","m","e",".","m","o","v">>,
      <<"s","0","1","e","0","1",".","m","k","v">>,
      <<"2","0","1","0",".","m","p","4">>,
      <<"n","o","t","e","s",".","t","x","t">>,
      <<"a",".","M","K","V">>,
      <<".","m","k","v">> }

\* creation events of the watcher: files under SOURCE_DIR, and a directory
Events ==
    { [src_path |-> PathJoin(SourceDir, f), is_directory |-> FALSE] : f \in FileNames }
    \cup { [src_path |-> PathJoin(SourceDir, <<"d">>), is_directory |-> TRUE] }

MovieHit  == [id |-> 1, media_type |-> "movie",  name |-> Empty]
TvHit     == [id |-> 2, media_type |-> "tv",
              name |-> <<"B","r",":"," ","B","a">>]
PersonHit == [id |-> 3, media_type |-> "person", name |-> <<"P">>]

HitLists == { <<>>, <<MovieHit>>, <<TvHit>>, <<PersonHit>>, <<MovieHit, TvHit>> }

MovieDetails ==
    { NoneValue,
      [none |-> FALSE, title |-> <<"I","n","c","e","p","t","i","o","n">>,
       release_date |-> <<"2","0","1","0","-","0","7","-","1","6">>] }

AirDate == <<"2","0","0","8","-","0","1","-","2","0">>

EpisodeDetails ==
    { NoneValue,
      [none |-> FALSE, season_number |-> 3,   episode_number |-> 7, air_date |-> AirDate],
      [none |-> FALSE, season_number |-> 100, episode_number |-> 7, air_date |-> AirDate] }

\* every combination of answers
AllEnvs ==
    [search   : {"ok", "fail"},
     hits     : HitLists,
     movie    : MovieDetails,
     episode  : EpisodeDetails,
     makedirs : {"ok", "fail"},
     move     : {"ok", "fail"}]

\* An answer nobody can ask for is held at one value: no response, no hit
\* list; a detail only of the kind of the first hit; a directory only for an
\* episode that has its detail; a move only with a detail and a directory.
FirstType(e) == IF e.hits = <<>> THEN "none" ELSE e.hits[1].media_type
Envs ==
    { e \in AllEnvs :
        /\ e.search = "fail" => e.hits = <<>>
        /\ FirstType(e) # "movie" => e.movie.none
        /\ FirstType(e) # "tv" => e.episode.none
        /\ e.episode.none => e.makedirs = "ok"
        /\ (e.movie.none /\ e.episode.none) \/ e.makedirs = "fail" => e.move = "ok" }

\* before any event
NoEvent == [src_path |-> Empty, is_directory |-> TRUE]
NoEnv   == [search |-> "fail", hits |-> <<>>, movie |-> NoneValue,
            episode |-> NoneValue, makedirs |-> "ok", move |-> "ok"]
NoCall  == [event |-> NoEvent, env |-> NoEnv, called |-> FALSE, result |-> Done(<<>>, <<>>)]

\* parse_filename not applied yet
NotParsed == [keys |-> {}, title |-> Empty, season |-> 0, episode |-> 0, year |-> Empty]

(***************************************************************************)
(* The program: start_monitoring, the observer's calls of on_created, and  *)
(* the KeyboardInterrupt that ends the main loop.                          *)
(***************************************************************************)
Init ==
    /\ config \in Configs
    /\ phase = "init"
    /\ observer = "none"
    /\ nEvents = 0
    /\ last = NoCall
    /\ dirs = {}
    /\ moved = {}
    /\ stem = Empty
    /\ parsed = NotParsed

\* line 162: all([API_KEY, SOURCE_DIR, MOVIE_DIR, TV_SHOW_DIR])
ConfigComplete(cfg) ==
    /\ TruthyKey(cfg.API_KEY)
    /\ TruthyDir(cfg.SOURCE_DIR)
    /\ TruthyDir(cfg.MOVIE_DIR)
    /\ TruthyDir(cfg.TV_SHOW_DIR)

\* lines 158-174: up to observer.start()
start_monitoring ==
    /\ phase = "init"
    /\ IF ~ConfigComplete(config)
       THEN /\ phase' = "exited"
            /\ UNCHANGED <<observer, dirs>>
       ELSE /\ phase' = "monitoring"
            /\ observer' = "running"
            /\ dirs' = dirs \cup {config.MOVIE_DIR, config.TV_SHOW_DIR}
    /\ UNCHANGED <<config, nEvents, last, moved, stem, parsed>>

\* the successful filesystem calls of one process_file run
MadeDirs(result, env) ==
    IF env.makedirs = "ok"
    THEN {result.calls[i].arg : i \in {j \in 1..Len(result.calls) : result.calls[j].op = "makedirs"}}
    ELSE {}
Relocated(result, env) ==
    IF env.move = "ok" /\ result.raised = ""
    THEN {<<result.calls[i].arg, result.calls[i].dst>> :
             i \in {j \in 1..Len(result.calls) : result.calls[j].op = "move"}}
    ELSE {}

\* lines 149-156, run by the observer thread for one creation event.  An
\* exception that leaves process_file leaves on_created too and ends the
\* observer thread, which has no handler for it.
on_created ==
    /\ observer = "running"
    /\ nEvents < MaxEvents
    /\ \E event \in Events, env \in Envs :
          IF event.is_directory
          THEN /\ last' = [event |-> event, env |-> NoEnv, called |-> FALSE,
                           result |-> Done(<<>>, <<>>)]
               /\ UNCHANGED <<observer, dirs, moved>>
          ELSE LET result == process_file(event.src_path, config, env)
               IN  /\ last' = [event |-> event, env |-> env, called |-> TRUE,
                               result |-> result]
                   /\ observer' = IF result.raised = "" THEN "running" ELSE "dead"
                   /\ dirs' = dirs \cup MadeDirs(result, env)
                   /\ moved' = moved \cup Relocated(result, env)
    /\ nEvents' = nEvents + 1
    /\ UNCHANGED <<config, phase, stem, parsed>>

\* lines 176-182: KeyboardInterrupt in the main loop, observer.stop()
keyboard_interrupt ==
    /\ phase = "monitoring"
    /\ phase' = "stopped"
    /\ observer' = IF observer = "running" THEN "stopped" ELSE observer
    /\ UNCHANGED <<config, nEvents, last, dirs, moved, stem, parsed>>

Next == start_monitoring \/ on_created \/ keyboard_interrupt

Spec == Init /\ [][Next]_vars

(***************************************************************************)
(* The parser on its own: parse_filename applied to a stem built from at   *)
(* most MaxPieces pieces.                                                  *)
(***************************************************************************)
Pieces ==
    { <<"a">>, <<"B",".">>, <<".">>, <<"_">>, <<" ">>, <<"s","0","1">>, <<"E","2">>,
      <<"s","3","e">>, <<"1">>, <<"2","0","1","0">>, <<"(">> }

InitParse ==
    /\ \E n \in 0..MaxPieces : \E ps \in [1..n -> Pieces] : stem = Flatten(ps)
    /\ parsed = NotParsed
    /\ config = [API_KEY |-> NoneKey, SOURCE_DIR |-> NoneDir,
                 MOVIE_DIR |-> NoneDir, TV_SHOW_DIR |-> Empty]
    /\ phase = "init"
    /\ observer = "none"
    /\ nEvents = 0
    /\ last = NoCall
    /\ dirs = {}
    /\ moved = {}

Parse ==
    /\ parsed = NotParsed
    /\ parsed' = parse_filename(stem)
    /\ UNCHANGED <<config, phase, observer, nEvents, last, dirs, moved, stem>>

SpecParse == InitParse /\ [][Parse]_vars

(***************************************************************************)
(* What the last call of process_file was given and what it did.           *)
(***************************************************************************)
LastName  == Basename(last.event.src_path)
LastExt   == SplitExt(LastName)[2]
LastGuess == parse_filename(SplitExt(LastName)[1])
LastCalls(op) == SelectSeq(last.result.calls, LAMBDA c : c.op = op)
LastLogged(level, msg) ==
    \E i \in 1..Len(last.result.log) : last.result.log[i] = LogRec(level, msg)
LastLevels == {last.result.log[i].level : i \in 1..Len(last.result.log)}

\* the search request was sent and the provider answered it
SearchAnswered ==
    /\ last.called
    /\ Len(LastCalls("GET search/multi")) = 1
    /\ last.env.search = "ok"

\* the provider's answer to the search is a non-empty list whose first hit
\* has media type t
FirstHitIs(t) ==
    /\ SearchAnswered
    /\ last.env.hits # <<>>
    /\ last.env.hits[1].media_type = t

(***************************************************************************)
(* C1.  process_file never lets an exception out: whatever the             *)
(* collaborators answer, it returns normally, and the observer thread      *)
(* stays available for the next event.                                     *)
(***************************************************************************)
C1_NeverRaises ==
    /\ last.called => last.result.raised = ""
    /\ observer # "dead"

\* the destination of the movie of the last event, as the naming rule gives it
C2_ExpectedMoviePath ==
    PathJoin(config.MOVIE_DIR,
             clean_name(last.env.movie.title) \o <<"-">>
                 \o Prefix(last.env.movie.release_date, 4) \o LastExt)

(***************************************************************************)
(* C2.  When the provider answers the search with a list whose first hit   *)
(* is a movie and the movie detail is {title T, release_date D}, the file  *)
(* is moved exactly once, to MOVIE_DIR/<clean(T)>-<D[:4]><ext>.            *)
(***************************************************************************)
C2_MovieMovedToCanonicalPath ==
    (FirstHitIs("movie") /\ ~last.env.movie.none)
        => LastCalls("move") =
               <<CallRec("move", last.event.src_path, C2_ExpectedMoviePath, <<>>)>>

(***************************************************************************)
(* C3.  When the first hit is a movie and the movie detail fetch fails,    *)
(* process_file ends in the hard error state: it returns having logged the *)
(* failure at ERROR level, and the file is not moved.                      *)
(***************************************************************************)
C3_MovieDetailFailureIsHardError ==
    (FirstHitIs("movie") /\ last.env.movie.none)
        => /\ last.result.raised = ""
           /\ LastLogged("ERROR", "Error getting movie details")
           /\ LastCalls("move") = <<>>
           /\ Relocated(last.result, last.env) = {}

(***************************************************************************)
(* C4.  When the first hit is a TV show, the guess has season and episode  *)
(* and the episode detail fetch fails, process_file does not raise: the    *)
(* failure is logged at WARNING level and not at ERROR level, no directory *)
(* is created, the file is not moved, and the observer goes on to the next *)
(* event.                                                                  *)
(***************************************************************************)
C4_EpisodeDetailFailureIsSoft ==
    (/\ FirstHitIs("tv")
     /\ {"season", "episode"} \subseteq LastGuess.keys
     /\ last.env.episode.none)
        => /\ last.result.raised = ""
           /\ LastLogged("WARNING", "Could not get TV show details")
           /\ "ERROR" \notin LastLevels
           /\ LastCalls("makedirs") = <<>>
           /\ LastCalls("move") = <<>>
           /\ observer # "dead"

(***************************************************************************)
(* C5.  The credential is checked once, before monitoring starts: with the *)
(* API key absent, empty or equal to the placeholder, monitoring never     *)
(* starts and no file is ever handed to process_file.                      *)
(***************************************************************************)
C5_BadCredentialNeverMonitors ==
    (~TruthyKey(config.API_KEY) \/ config.API_KEY = PlaceholderKey)
        => /\ phase \in {"init", "exited"}
           /\ observer = "none"
           /\ ~last.called

\* n in decimal, at least two digits wide
C6_TwoDigits(n) == IF n < 10 THEN <<"0", DigitChar(n)>> ELSE ToStr(n)

\* the destination of the episode of the last event, as the naming rule gives it
C6_ExpectedEpisodePath ==
    LET show == clean_name(last.env.hits[1].name)
        ss   == C6_TwoDigits(last.env.episode.season_number)
        ee   == C6_TwoDigits(last.env.episode.episode_number)
    IN  config.TV_SHOW_DIR \o <<"/">> \o show \o <<"/">>
            \o <<"S","e","a","s","o","n"," ">> \o ss \o <<"/">>
            \o show \o <<".","s">> \o ss \o <<"e">> \o ee \o <<"-">>
            \o Prefix(last.env.episode.air_date, 4) \o LastExt

(***************************************************************************)
(* C6.  For an episode the provider resolves (TV first hit, a guess with   *)
(* season and episode, an episode detail, directory and move succeeding),  *)
(* the file ends at TV_SHOW_DIR/<show>/Season SS/<show>.sSSeEE-<year><ext> *)
(* where SS and EE are season_number and episode_number of the detail,     *)
(* padded with zeros to two digits and never truncated.                    *)
(***************************************************************************)
C6_EpisodeNumbersFromDetail ==
    (/\ FirstHitIs("tv")
     /\ {"season", "episode"} \subseteq LastGuess.keys
     /\ ~last.env.episode.none
     /\ last.env.makedirs = "ok"
     /\ last.env.move = "ok")
        => <<last.event.src_path, C6_ExpectedEpisodePath>> \in moved

(***************************************************************************)
(* The season/episode marker as the claim describes it: an 's', one or two *)
(* digits, an 'e', one or two digits, in either case; the first one in the *)
(* stem, each group as long as it can be.                                  *)
(***************************************************************************)
C7_Markers(s) ==
    { m \in (1..Len(s)) \X (1..2) \X (1..2) :
        /\ CharAt(s, m[1], {"s", "S"})
        /\ \A k \in 1..m[2] : DigitAt(s, m[1] + k)
        /\ CharAt(s, m[1] + m[2] + 1, {"e", "E"})
        /\ \A k \in 1..m[3] : DigitAt(s, m[1] + m[2] + 1 + k) }

C7_Before(m, o) ==
    \/ m[1] < o[1]
    \/ m[1] = o[1] /\ m[2] > o[2]
    \/ m[1] = o[1] /\ m[2] = o[2] /\ m[3] >= o[3]

C7_Marker(s) == CHOOSE m \in C7_Markers(s) : \A o \in C7_Markers(s) : C7_Before(m, o)
C7_Season(s) == LET m == C7_Marker(s) IN ToInt(SubSeq(s, m[1] + 1, m[1] + m[2]))
C7_Episode(s) ==
    LET m == C7_Marker(s) IN ToInt(SubSeq(s, m[1] + m[2] + 2, m[1] + m[2] + 1 + m[3]))
C7_Before_Marker(s) == SubSeq(s, 1, C7_Marker(s)[1] - 1)

\* the stem holds a 4-digit year token
C7_HasYear(s) == \E i \in 1..Len(s) : \A k \in 0..3 : DigitAt(s, i + k)

(***************************************************************************)
(* C7 as stated.  For every stem with a season/episode marker,             *)
(* parse_filename returns an episode guess (also when the stem holds a     *)
(* year): season the first number of the marker, episode the second,       *)
(* title the text before the marker with '.' and '_' replaced by spaces,   *)
(* trimmed and lowercased.                                                 *)
(***************************************************************************)
C7_TitleDotsAndUnderscores ==
    (parsed # NotParsed /\ C7_Markers(stem) # {})
        => /\ parsed.keys = {"title", "season", "episode"}
           /\ parsed.season = C7_Season(stem)
           /\ parsed.episode = C7_Episode(stem)
           /\ parsed.title =
                 Lower(Strip(Replace(Replace(C7_Before_Marker(stem), ".", " "), "_", " ")))

(***************************************************************************)
(* C7 amended.  For every stem with a season/episode marker,               *)
(* parse_filename returns an episode guess (also when the stem holds a     *)
(* year): season the first number of the marker, episode the second,       *)
(* title the text before the marker with '.' replaced by spaces (an        *)
(* underscore stays an underscore), trimmed and lowercased.                *)
(***************************************************************************)
C7_TitleDotsOnly ==
    (parsed # NotParsed /\ C7_Markers(stem) # {})
        => /\ parsed.keys = {"title", "season", "episode"}
           /\ parsed.season = C7_Season(stem)
           /\ parsed.episode = C7_Episode(stem)
           /\ parsed.title = Lower(Strip(Replace(C7_Before_Marker(stem), ".", " ")))

\* a parsed stem with a marker, a year after it, and a title with a dot and
\* an upper-case letter before it
C7_Witness ==
    /\ parsed # NotParsed
    /\ C7_Markers(stem) # {}
    /\ C7_HasYear(stem)
    /\ \E i \in 1..Len(C7_Before_Marker(stem)) : C7_Before_Marker(stem)[i] = "."
    /\ C7_Before_Marker(stem) # Lower(C7_Before_Marker(stem))
    /\ parsed.title # Empty

(***************************************************************************)
(* C8.  A file whose extension is not in VIDEO_EXTENSIONS is not parsed,   *)
(* not looked up and not moved: process_file makes no call at all, logs    *)
(* the skip and returns.                                                   *)
(***************************************************************************)
C8_NonVideoOnlySkipped ==
    (last.called /\ LastExt \notin VIDEO_EXTENSIONS)
        => /\ last.result = Done(<<LogRec("INFO", "Skipping non-video file")>>, <<>>)
           /\ Relocated(last.result, last.env) = {}

\* a file with an extension outside the list has been handled
C8_Witness ==
    /\ last.called
    /\ LastExt # Empty
    /\ LastExt \notin VIDEO_EXTENSIONS
    /\ LastLogged("INFO", "Skipping non-video file")

(***************************************************************************)
(* C9.  When the first hit is a TV show and the guess has no season and    *)
(* episode, process_file ends with the not-found warning: it returns, no   *)
(* episode detail is requested, no directory is created and the file is    *)
(* not moved.                                                              *)
(***************************************************************************)
C9_TvWithoutEpisodeIsNotFound ==
    (FirstHitIs("tv") /\ ~({"season", "episode"} \subseteq LastGuess.keys))
        => /\ last.result.raised = ""
           /\ LastLogged("WARNING", "Could not determine season/episode")
           /\ LastCalls("GET tv episode") = <<>>
           /\ LastCalls("makedirs") = <<>>
           /\ LastCalls("move") = <<>>

\* the last call had everything a move needs
C10_Resolved ==
    /\ LastExt \in VIDEO_EXTENSIONS
    /\ LastGuess.title # Empty
    /\ SearchAnswered
    /\ last.env.hits # <<>>
    /\ \/ last.env.hits[1].media_type = "movie" /\ ~last.env.movie.none
       \/ /\ last.env.hits[1].media_type = "tv"
          /\ {"season", "episode"} \subseteq LastGuess.keys
          /\ ~last.env.episode.none

(***************************************************************************)
(* C10.  One call of process_file invokes the mover at most once, and only *)
(* when the extension is recognized, the title is not empty, the search    *)
(* was answered with a non-empty list, the first hit is a movie or a TV    *)
(* show and the detail of that kind was fetched; in every other run the    *)
(* mover is not invoked and the file stays where it was.                   *)
(***************************************************************************)
C10_MoveOnlyWhenResolved ==
    last.called
        => /\ Len(LastCalls("move")) <= 1
           /\ Len(LastCalls("move")) = 1 => C10_Resolved
           /\ ~C10_Resolved => /\ LastCalls("move") = <<>>
                               /\ Relocated(last.result, last.env) = {}

\* a recognized file with a title whose search failed: the call returned
\* and nothing was moved
C10_Witness ==
    /\ last.called
    /\ LastExt \in VIDEO_EXTENSIONS
    /\ LastGuess.title # Empty
    /\ Len(LastCalls("GET search/multi")) = 1
    /\ last.env.search = "fail"
    /\ last.result.raised = ""
    /\ LastLogged("WARNING", "No search results")
    /\ LastCalls("move") = <<>>

=============================================================================
